---- MODULE Spec2Model ----
(***************************************************************************)
(* chowkidaar: the encrypted secret store (package store), the master      *)
(* password cache (package cache) and the cipher (package crypto) as a     *)
(* state machine.                                                          *)
(*                                                                         *)
(* A secret name is a sequence of tokens: letters, the separator "/", the *)
(* parent component ".." and the fixed suffix ".enc".  A path is a         *)
(* sequence of components, each a sequence of tokens, counted from the     *)
(* filesystem root.  A stored blob salt || nonce || ciphertext is the      *)
(* record of what determines it: the random salt/nonce, the combined key   *)
(* (master password, keyfile bytes) and the plaintext; AES-GCM opens it    *)
(* exactly under the same combined key.                                    *)
(***************************************************************************)
EXTENDS Naturals, Sequences, FiniteSets, TLC

\* ------------------------------------------------------------------ bounds
MaxTime == 2        \* the clock runs 0..MaxTime
MaxSalt == 3        \* distinct random salt/nonce values of secret blobs
MaxSession == 5     \* distinct random session IDs

\* the processes: a long-lived one and another invocation of the tool
Procs == {1, 2}
Main == 1
Other == 2
Creds == {"c1", "c2"}
Plaintexts == {<<"p">>, <<"p", "\n">>}
Names == {<<"a">>, <<"a", ".enc">>, <<"d", "/", "b">>}
Salts == 1..MaxSalt
SessionIDs == 1..MaxSession
\* the cache timeouts that are configured: caching disabled, and one tick
Timeouts == {0, 1}

\* the store root directory (config.StoreDir) and the files the tool keeps in it
BaseDir == << <<"s">> >>
CacheDir == Append(BaseDir, <<".cache">>)
KeyFileBytes == "k1"

\* ------------------------------------------------------------- path algebra
\* byte order of the tokens: '.' sorts before every letter
TokenRank(t) == CASE t = ".enc" -> 0 [] t = ".." -> 0 [] t = ".cache" -> 0
                  [] t = "a" -> 1 [] t = "b" -> 2 [] t = "d" -> 3
                  [] t = "s" -> 4 [] OTHER -> 5

HasSuffixEnc(name) == Len(name) > 0 /\ name[Len(name)] = ".enc"

RECURSIVE SplitName(_, _, _)
\* strings.Split on the separator: the components of a name, left to right
SplitName(name, cur, acc) ==
    IF name = <<>> THEN Append(acc, cur)
    ELSE IF Head(name) = "/" THEN SplitName(Tail(name), <<>>, Append(acc, cur))
    ELSE SplitName(Tail(name), Append(cur, Head(name)), acc)

RECURSIVE Clean(_, _)
\* filepath.Clean of a rooted path: empty components vanish, ".." drops the
\* component before it (and nothing at the root)
Clean(comps, acc) ==
    IF comps = <<>> THEN acc
    ELSE IF Head(comps) = <<>> THEN Clean(Tail(comps), acc)
    ELSE IF Head(comps) = <<"..">>
         THEN Clean(Tail(comps), IF acc = <<>> THEN acc ELSE SubSeq(acc, 1, Len(acc) - 1))
    ELSE Clean(Tail(comps), Append(acc, Head(comps)))

Join(base, name) == Clean(base \o SplitName(name, <<>>, <<>>), <<>>)

\* (mutant) the suffix is appended to every name
getPasswordFilePath_append(name) == Join(BaseDir, Append(name, ".enc"))

getPasswordFilePath(name) ==
    Join(BaseDir, IF HasSuffixEnc(name) THEN name ELSE Append(name, ".enc"))

Dir(path) == SubSeq(path, 1, Len(path) - 1)

IsPrefix(p, q) == Len(p) <= Len(q) /\ SubSeq(q, 1, Len(p)) = p
Prefixes(path) == {SubSeq(path, 1, i) : i \in 0..Len(path)}

RECURSIVE CompLess(_, _)
\* byte order of two different file names (a name sorts before its extensions)
CompLess(c, d) ==
    IF c = <<>> THEN d # <<>>
    ELSE IF d = <<>> THEN FALSE
    ELSE IF Head(c) = Head(d) THEN CompLess(Tail(c), Tail(d))
    ELSE TokenRank(Head(c)) < TokenRank(Head(d))

RECURSIVE PathLess(_, _)
\* the order in which filepath.Walk reaches two different files: lexical, by
\* the file names along the two paths
PathLess(p, q) ==
    IF p = <<>> THEN q # <<>>
    ELSE IF q = <<>> THEN FALSE
    ELSE IF Head(p) = Head(q) THEN PathLess(Tail(p), Tail(q))
    ELSE CompLess(Head(p), Head(q))

\* -------------------------------------------------------------------- state
VARIABLES
    files,        \* the files below the filesystem root: path -> blob
    dirs,         \* the directories that exist
    keyfile,      \* the bytes of <store>/.keyfile, "none" when there is none
    mirror,       \* <store>/.cache/password.cache
    sessionFile,  \* <store>/.cache/session
    mem,          \* per process: PasswordCache.cachedPassword, expiration, sessionID
    timeout,      \* PasswordCache.cacheTimeout, as configured
    diskFault,    \* the disk operation of PasswordCache.Set that fails under the store
    now,          \* the wall clock
    written,      \* per path: the last successful write (history)
    sinceClear,   \* what happened to the cache since it was last cleared (history)
    proc,         \* per process: the store call it is in, and where in it
    git,          \* the Git repository of the store, its remote, the Git configuration
    initRec,      \* the first keyfile created and the master password set by init (history)
    tmpDir,       \* the scratch files of Edit that exist in os.TempDir()
    thread,       \* per thread or process: the cache call it is in, where, and its locals
    mu,           \* PasswordCache.mu of the process whose threads are modelled
    last          \* the call that returned last, and what it returned (history)

vars == <<files, dirs, keyfile, mirror, sessionFile, mem, timeout, diskFault, now, written,
          sinceClear, proc, git, initRec, tmpDir, thread, mu, last>>

\* time.Time{}: the zero time, before every reading of the clock
ZeroTime == 0

EmptyMem == [pw |-> "", exp |-> ZeroTime, sid |-> 0]
NoMirror == [kind |-> "none", ctk |-> 0, pw |-> "", ctok |-> FALSE, nonce |-> "", exp |-> ZeroTime, sid |-> 0]
JunkMirror == [NoMirror EXCEPT !.kind = "junk"]
NoSession == [exists |-> FALSE, data |-> 0]
NoWrite == [set |-> FALSE, pt |-> <<>>, cred |-> ""]
\* a thread in no cache call; a sync.RWMutex nobody holds
NoThread == [pc |-> "idle", op |-> "none", sid |-> 0, entry |-> NoMirror, password |-> ""]
NoLock == [writer |-> 0, readers |-> {}]

\* ------------------------------------------------------------------- cipher
\* (mutant) the master password is left out of the combined key
getCombinedKey_keyfileOnly(kf, masterPassword) ==
    IF kf = "none" THEN [err |-> "keyfile not found", key |-> <<"", "">>]
    ELSE [err |-> "", key |-> <<"", kf>>]

\* getCombinedKey: master password || keyfile bytes, or an error.  The keyfile
\* is keyFileSize bytes or the call fails, so the concatenation determines
\* both parts: it is kept as the pair.
getCombinedKey(kf, masterPassword) ==
    IF kf = "none" THEN [err |-> "keyfile not found", key |-> <<"", "">>]
    ELSE [err |-> "", key |-> <<masterPassword, kf>>]

\* Encrypt: salt || nonce || AES-GCM(Argon2id(combined key, salt), nonce, data)
Encrypt(kf, data, masterPassword, salt) ==
    LET ck == getCombinedKey(kf, masterPassword)
    IN  IF ck.err # "" THEN [err |-> ck.err, blob |-> [salt |-> 0, key |-> ck.key, pt |-> <<>>]]
        ELSE [err |-> "", blob |-> [salt |-> salt, key |-> ck.key, pt |-> data]]

\* (mutant) the tag is not verified: every key opens the blob
Decrypt_anyKey(kf, blob, masterPassword) ==
    LET ck == getCombinedKey(kf, masterPassword)
    IN  IF ck.err # "" THEN [err |-> ck.err, pt |-> <<>>]
        ELSE [err |-> "", pt |-> blob.pt]

\* Decrypt: the tag verifies exactly under the combined key of the Encrypt call
Decrypt(kf, blob, masterPassword) ==
    LET ck == getCombinedKey(kf, masterPassword)
    IN  IF ck.err # "" THEN [err |-> ck.err, pt |-> <<>>]
        ELSE IF ck.key # blob.key THEN [err |-> "failed to decrypt data", pt |-> <<>>]
        ELSE [err |-> "", pt |-> blob.pt]

\* rand.Read for a salt and nonce: a value no blob on disk carries
FreshSalt(fs) ==
    LET used == {fs[f].salt : f \in DOMAIN fs}
    IN  CHOOSE s \in Salts \ used : \A t \in Salts \ used : s <= t

\* ---------------------------------------------------------- password cache
\* The cache functions act on a cache state cs = [m, mirror, sess, cdir, err]:
\* the calling process's memory, the two cache files, whether the cache
\* directory exists, and the error the call returned.
SetFailures == {"none", "mkdir", "mirror", "mirror_torn", "session"}
\* The store discards the error of CachePassword, so to the store every failure
\* is alike: a store runs with the disk in order or with its cache directory
\* out of reach.
StoreFailures == {"none", "mkdir"}
\* ... or with os.WriteFile of a secret file failing (a full or read-only disk)
WriteFailures == {"none", "write"}

CacheState(p) ==
    [m |-> mem[p], mirror |-> mirror, sess |-> sessionFile,
     cdir |-> CacheDir \in dirs, err |-> ""]

\* rand.Read for a session ID: a value that is nowhere in memory or on disk
FreshSession(cs) ==
    LET used == {mem[q].sid : q \in Procs} \cup {cs.m.sid, cs.mirror.sid, cs.mirror.ctk, cs.sess.data}
    IN  CHOOSE s \in SessionIDs \ used : \A t \in SessionIDs \ used : s <= t

\* saveToDisk: the record written to password.cache
saveToDisk(m) ==
    [kind |-> "entry", ctk |-> m.sid, pw |-> m.pw, ctok |-> TRUE, nonce |-> "ok",
     exp |-> m.exp, sid |-> m.sid]

\* PasswordCache.Set; fail names the disk operation that fails, if any
CacheSet(cs, password, t, tmo, fail) ==
    LET m2 == [pw |-> password, exp |-> t + tmo, sid |-> FreshSession(cs)]
    IN  IF fail = "mkdir" THEN [cs EXCEPT !.m = m2, !.err = "mkdir"]
        ELSE IF fail = "mirror" THEN [cs EXCEPT !.m = m2, !.cdir = TRUE, !.err = "write mirror"]
        ELSE IF fail = "mirror_torn"
             THEN [cs EXCEPT !.m = m2, !.cdir = TRUE, !.mirror = JunkMirror, !.err = "write mirror"]
        ELSE IF fail = "session"
             THEN [cs EXCEPT !.m = m2, !.cdir = TRUE, !.mirror = saveToDisk(m2), !.err = "write session"]
        ELSE [cs EXCEPT !.m = m2, !.cdir = TRUE, !.mirror = saveToDisk(m2),
                        !.sess = [exists |-> TRUE, data |-> m2.sid], !.err = ""]

\* gcm.Open of the mirror's ciphertext under the key of the mirror's session ID
MirrorOpens(e) == e.ctok /\ e.ctk = e.sid

\* loadFromDisk: [cs, loaded, pw, panic]
loadFromDisk(cs, t, readFails) ==
    LET e == cs.mirror
        miss(c) == [cs |-> c, loaded |-> FALSE, pw |-> "", panic |-> FALSE]
    IN  IF e.kind = "none" THEN miss(cs)
        ELSE IF readFails THEN miss(cs)
        ELSE IF e.kind = "junk" THEN miss([cs EXCEPT !.mirror = NoMirror])
        ELSE IF t > e.exp THEN miss([cs EXCEPT !.mirror = NoMirror])
        ELSE LET c2 == [cs EXCEPT !.m.sid = e.sid, !.m.exp = e.exp]
             IN  IF e.nonce # "ok"
                 THEN [cs |-> c2, loaded |-> FALSE, pw |-> "", panic |-> TRUE]
                 ELSE IF ~MirrorOpens(e) THEN miss([c2 EXCEPT !.mirror = NoMirror])
                 ELSE [cs |-> c2, loaded |-> TRUE, pw |-> e.pw, panic |-> FALSE]

\* PasswordCache.Get: [cs, found, pw, panic]
CacheGet(cs, t, readFails) ==
    IF cs.m.pw # "" /\ t < cs.m.exp
    THEN [cs |-> cs, found |-> TRUE, pw |-> cs.m.pw, panic |-> FALSE]
    ELSE LET l == loadFromDisk(cs, t, readFails)
         IN  IF l.loaded
             THEN [cs |-> [l.cs EXCEPT !.m.pw = l.pw], found |-> TRUE, pw |-> l.pw, panic |-> FALSE]
             ELSE [cs |-> l.cs, found |-> FALSE, pw |-> "", panic |-> l.panic]

\* (mutant) the empty in-memory session ID is compared like any other
ValidateSession_noEmptyCheck(cs, readFails) ==
    IF ~cs.sess.exists \/ readFails THEN FALSE
    ELSE cs.sess.data = cs.m.sid

\* PasswordCache.ValidateSession
ValidateSession(cs, readFails) ==
    IF cs.m.sid = 0 THEN FALSE
    ELSE IF ~cs.sess.exists \/ readFails THEN FALSE
    ELSE cs.sess.data = cs.m.sid

\* (mutant) Clear leaves the mirror file on disk
CacheClear_keepMirror(cs) ==
    [cs EXCEPT !.m = EmptyMem, !.sess = NoSession]

\* PasswordCache.Clear
CacheClear(cs) ==
    [cs EXCEPT !.m = EmptyMem, !.mirror = NoMirror, !.sess = NoSession]

\* -------------------------------------------------------------------- store
\* The store functions act on a world w = [files, dirs, cs] and return
\* [w, res, out, cacheErr]: the world they leave, the error they return ("ok"
\* for nil), the plaintext they return, and whether a CachePassword call they
\* made returned an error.  fail is the disk operation of PasswordCache.Set
\* that fails while the call runs, if any.
World(p) == [files |-> files, dirs |-> dirs, cs |-> CacheState(p), tmp |-> tmpDir]

Ret(w, res, out, cacheErr) == [w |-> w, res |-> res, out |-> out, cacheErr |-> cacheErr]

\* the .enc files filepath.Walk(baseDir) can reach
EncFiles(fs) ==
    {f \in DOMAIN fs : IsPrefix(BaseDir, f) /\ Len(f) > Len(BaseDir) /\ HasSuffixEnc(f[Len(f)])}

\* the first .enc file in walk order
FirstEncFile(fs) ==
    CHOOSE f \in EncFiles(fs) : \A g \in EncFiles(fs) : g = f \/ PathLess(f, g)

\* (mutant) no validation: every master password is accepted
validatePasswordIfNeeded_none(w, kf, masterPassword, t, tmo, fail) ==
    [err |-> "", cs |-> w.cs, cacheErr |-> FALSE]

\* validatePasswordIfNeeded: [err, cs, cacheErr]
validatePasswordIfNeeded(w, kf, masterPassword, t, tmo, fail) ==
    IF EncFiles(w.files) = {}
    THEN [err |-> "", cs |-> w.cs, cacheErr |-> FALSE]
    ELSE IF Decrypt(kf, w.files[FirstEncFile(w.files)], masterPassword).err # ""
    THEN [err |-> "incorrect master password", cs |-> w.cs, cacheErr |-> FALSE]
    ELSE LET c2 == CacheSet(w.cs, masterPassword, t, tmo, fail)
         IN  [err |-> "", cs |-> [c2 EXCEPT !.err = ""], cacheErr |-> c2.err # ""]

\* os.Stat(path) fails with an error that is not IsNotExist when a component of
\* the path is a regular file
StatNotDir(w, path) == \E q \in Prefixes(path) : q # path /\ q \in DOMAIN w.files
StatOK(w, path) == ~StatNotDir(w, path) /\ (path \in DOMAIN w.files \/ path \in w.dirs)

\* Store.Exists
Exists(w, name) ==
    LET path == getPasswordFilePath(name)
    IN  StatOK(w, path) \/ StatNotDir(w, path)

\* os.MkdirAll
MkdirAllOK(w, dir) == \A q \in Prefixes(dir) : q \notin DOMAIN w.files
MkdirAll(w, dir) == [w EXCEPT !.dirs = w.dirs \cup Prefixes(dir)]

\* os.WriteFile
WriteFileOK(w, path) == path \notin w.dirs /\ Dir(path) \in w.dirs
WriteFile(w, path, blob) ==
    [w EXCEPT !.files = [f \in DOMAIN w.files \cup {path} |->
                            IF f = path THEN blob ELSE w.files[f]]]

\* the part Insert and Update share: MkdirAll, Encrypt, WriteFile, CachePassword
EncryptAndWrite(w, kf, name, password, masterPassword, t, tmo, fail, cacheErr) ==
    LET path == getPasswordFilePath(name)
        w1 == MkdirAll(w, Dir(path))
        enc == Encrypt(kf, password, masterPassword, FreshSalt(w.files))
        w2 == WriteFile(w1, path, enc.blob)
        c3 == CacheSet(w2.cs, masterPassword, t, tmo, fail)
    IN  IF ~MkdirAllOK(w, Dir(path)) THEN Ret(w, "failed to create directory", <<>>, cacheErr)
        ELSE IF enc.err # "" THEN Ret(w1, "failed to encrypt password", <<>>, cacheErr)
        ELSE IF ~WriteFileOK(w1, path) \/ fail = "write"
        THEN Ret(w1, "failed to write password file", <<>>, cacheErr)
        ELSE Ret([w2 EXCEPT !.cs = [c3 EXCEPT !.err = ""]], "ok", <<>>, cacheErr \/ c3.err # "")

\* (mutant) Insert without the Exists check
StoreInsert_noExists(w, kf, name, password, masterPassword, t, tmo, fail) ==
    LET v == validatePasswordIfNeeded(w, kf, masterPassword, t, tmo, fail)
        w1 == [w EXCEPT !.cs = v.cs]
    IN  IF v.err # "" THEN Ret(w, "password validation failed", <<>>, FALSE)
        ELSE EncryptAndWrite(w1, kf, name, password, masterPassword, t, tmo, fail, v.cacheErr)

\* Store.Insert
StoreInsert(w, kf, name, password, masterPassword, t, tmo, fail) ==
    LET v == validatePasswordIfNeeded(w, kf, masterPassword, t, tmo, fail)
        w1 == [w EXCEPT !.cs = v.cs]
    IN  IF v.err # "" THEN Ret(w, "password validation failed", <<>>, FALSE)
        ELSE IF Exists(w1, name) THEN Ret(w1, "already exists", <<>>, v.cacheErr)
        ELSE EncryptAndWrite(w1, kf, name, password, masterPassword, t, tmo, fail, v.cacheErr)

\* (mutant) Update creates the directory before it validates the password
StoreUpdate_mkdirFirst(w, kf, name, password, masterPassword, t, tmo, fail) ==
    LET v == validatePasswordIfNeeded(w, kf, masterPassword, t, tmo, fail)
        w0 == MkdirAll(w, Dir(getPasswordFilePath(name)))
        w1 == [w0 EXCEPT !.cs = v.cs]
    IN  IF v.err # "" THEN Ret(w0, "password validation failed", <<>>, FALSE)
        ELSE EncryptAndWrite(w1, kf, name, password, masterPassword, t, tmo, fail, v.cacheErr)

\* Store.Update
StoreUpdate(w, kf, name, password, masterPassword, t, tmo, fail) ==
    LET v == validatePasswordIfNeeded(w, kf, masterPassword, t, tmo, fail)
        w1 == [w EXCEPT !.cs = v.cs]
    IN  IF v.err # "" THEN Ret(w, "password validation failed", <<>>, FALSE)
        ELSE EncryptAndWrite(w1, kf, name, password, masterPassword, t, tmo, fail, v.cacheErr)

\* Crypto.PromptMasterPassword: [cs, pw]; typed is what the user enters when
\* the cache has no password to give
PromptMasterPassword(cs, typed, t, readFails) ==
    LET g == CacheGet(cs, t, readFails)
    IN  [cs |-> g.cs, pw |-> IF g.found THEN g.pw ELSE typed]

\* (mutant) Show caches the master password before it has decrypted with it
StoreShow_cacheFirst(w, kf, name, masterPassword, t, tmo, fail) ==
    LET path == getPasswordFilePath(name)
        dec == Decrypt(kf, w.files[path], masterPassword)
        c2 == CacheSet(w.cs, masterPassword, t, tmo, fail)
        w2 == [w EXCEPT !.cs = [c2 EXCEPT !.err = ""]]
    IN  IF path \notin DOMAIN w.files THEN Ret(w, "does not exist", <<>>, FALSE)
        ELSE IF dec.err # "" THEN Ret(w2, "failed to decrypt password", <<>>, FALSE)
        ELSE Ret(w2, "ok", dec.pt, c2.err # "")

\* Store.Show
StoreShow(w, kf, name, masterPassword, t, tmo, fail) ==
    LET path == getPasswordFilePath(name)
        dec == Decrypt(kf, w.files[path], masterPassword)
        c2 == CacheSet(w.cs, masterPassword, t, tmo, fail)
    IN  IF path \notin DOMAIN w.files
        THEN IF path \in w.dirs \/ StatNotDir(w, path)
             THEN Ret(w, "failed to read password file", <<>>, FALSE)
             ELSE Ret(w, "does not exist", <<>>, FALSE)
        ELSE IF dec.err # "" THEN Ret(w, "failed to decrypt password", <<>>, FALSE)
        ELSE Ret([w EXCEPT !.cs = [c2 EXCEPT !.err = ""]], "ok", dec.pt, c2.err # "")

\* what a directory holds: the files and directories directly below it
Entries(w, dir) ==
    {f \in DOMAIN w.files : Len(f) > 0 /\ Dir(f) = dir}
        \cup {d \in w.dirs : Len(d) > 0 /\ Dir(d) = dir}
        \cup (IF dir = CacheDir /\ w.cs.mirror.kind # "none" THEN {<<"password.cache">>} ELSE {})
        \cup (IF dir = CacheDir /\ w.cs.sess.exists THEN {<<"session">>} ELSE {})
        \cup (IF dir = BaseDir /\ w.cs.cdir THEN {CacheDir} ELSE {})

\* (mutant) only the directory of the file is pruned, not its ancestors
cleanupEmptyDirs_once(w, dir) ==
    IF dir = BaseDir \/ dir \notin w.dirs \/ Entries(w, dir) # {} THEN w
    ELSE [w EXCEPT !.dirs = w.dirs \ {dir}]

RECURSIVE cleanupEmptyDirs(_, _)
\* Store.cleanupEmptyDirs: the directories left after pruning upward from dir
cleanupEmptyDirs(w, dir) ==
    IF dir = BaseDir THEN w
    ELSE IF dir \notin w.dirs THEN w
    ELSE IF Entries(w, dir) # {} THEN w
    ELSE cleanupEmptyDirs([w EXCEPT !.dirs = w.dirs \ {dir}], Dir(dir))

\* Store.Remove
StoreRemove(w, name) ==
    LET path == getPasswordFilePath(name)
        w1 == [w EXCEPT !.files = [f \in DOMAIN w.files \ {path} |-> w.files[f]],
                        !.dirs = w.dirs \ {path}]
    IN  IF ~StatOK(w, path) /\ ~StatNotDir(w, path) THEN Ret(w, "does not exist", <<>>, FALSE)
        ELSE IF StatNotDir(w, path) \/ (path \in w.dirs /\ Entries(w, path) # {})
        THEN Ret(w, "failed to remove password file", <<>>, FALSE)
        ELSE Ret(cleanupEmptyDirs(w1, Dir(path)), "ok", <<>>, FALSE)

\* strings.TrimSuffix(s, "\n")
TrimNewline(s) == IF Len(s) > 0 /\ s[Len(s)] = "\n" THEN SubSeq(s, 1, Len(s) - 1) ELSE s

\* what the editor can do with the scratch file it was given: fail, or exit
\* with the file as it was, with a newline added, or with new content; and what
\* can fail around it: os.CreateTemp, the write of the scratch file, the read
\* of it after the editor
EditorOutcomes(cur) ==
    {[ok |-> FALSE, content |-> cur, fault |-> "none"]}
        \cup {[ok |-> TRUE, content |-> c, fault |-> "none"] :
                  c \in {cur, Append(cur, "\n")} \cup Plaintexts}
        \cup {[ok |-> TRUE, content |-> cur, fault |-> f] : f \in {"create", "write", "read"}}

\* os.CreateTemp("", "chowkidaar-edit-*.tmp"): a name no file of os.TempDir() has
CreateTemp(tmp) == CHOOSE i \in 1..(Cardinality(tmp) + 1) : i \notin tmp

\* (mutant) Edit without its deferred os.Remove(tmpPath)
deferRemove_none(r, tmpPath) == r

\* the deferred os.Remove(tmpPath) of Edit: it runs on every return that
\* follows its registration, on what the return leaves
deferRemove(r, tmpPath) == [r EXCEPT !.w.tmp = r.w.tmp \ {tmpPath}]

\* Store.Edit; editor.content is the scratch file's content when the editor returns
StoreEdit(w, kf, name, masterPassword, editor, t, tmo, fail) ==
    LET path == getPasswordFilePath(name)
        editorOK == editor.ok
        edited == editor.content
        isFile == StatOK(w, path)
        sh == StoreShow(w, kf, name, masterPassword, t, tmo, fail)
        cur == IF isFile THEN sh.out ELSE <<>>
        w1 == IF isFile THEN sh.w ELSE w
        ce == isFile /\ sh.cacheErr
        tmpPath == CreateTemp(w1.tmp)
        w2 == [w1 EXCEPT !.tmp = w1.tmp \cup {tmpPath}]
        up == StoreUpdate(w2, kf, name, TrimNewline(edited), masterPassword, t, tmo, fail)
    IN  IF isFile /\ sh.res # "ok" THEN Ret(w, "failed to read existing password", <<>>, FALSE)
        ELSE IF StatNotDir(w, path) THEN Ret(w, "failed to check password file", <<>>, FALSE)
        ELSE IF editor.fault = "create" THEN Ret(w1, "failed to create temporary file", <<>>, ce)
        ELSE deferRemove(
               IF editor.fault = "write"
               THEN Ret(w2, "failed to write to temporary file", <<>>, ce)
               ELSE IF ~editorOK THEN Ret(w2, "editor exited with error", <<>>, ce)
               ELSE IF editor.fault = "read"
                    THEN Ret(w2, "failed to read edited content", <<>>, ce)
               ELSE IF TrimNewline(edited) = cur THEN Ret(w2, "no changes", <<>>, ce)
               ELSE IF up.res # "ok"
                    THEN Ret(up.w, "failed to save edited password", <<>>, ce \/ up.cacheErr)
               ELSE Ret(up.w, "ok", <<>>, ce \/ up.cacheErr),
               tmpPath)

\* --------------------------------------------------------------------- git
\* The working tree of the store directory: one entry per file, by its path
\* relative to the store directory and by what the file is.
RelPath(f) == SubSeq(f, Len(BaseDir) + 1, Len(f))

WorkTree(fs, kf, mir, sess, g) ==
    {[path |-> RelPath(f), kind |-> "secret"] :
        f \in {x \in DOMAIN fs : IsPrefix(BaseDir, x) /\ Len(x) > Len(BaseDir)}}
        \cup (IF kf # "none" THEN {[path |-> << <<".keyfile">> >>, kind |-> "keyfile"]} ELSE {})
        \cup (IF mir.kind # "none"
              THEN {[path |-> << <<".cache">>, <<"password.cache">> >>, kind |-> "mirror"]} ELSE {})
        \cup (IF sess.exists
              THEN {[path |-> << <<".cache">>, <<"session">> >>, kind |-> "session"]} ELSE {})
        \cup (IF g.gitignore THEN {[path |-> << <<".gitignore">> >>, kind |-> "gitignore"]} ELSE {})
        \cup (IF g.cfgURL THEN {[path |-> << <<".git-config">> >>, kind |-> "gitconfig"]} ELSE {})

\* the patterns of the .gitignore the tool writes: ".cache/", ".master",
\* ".git-config", ".DS_Store", "*.tmp", "*.swp", "*~"
Ignored(path) ==
    \/ \E i \in 1..(Len(path) - 1) : path[i] = <<".cache">>
    \/ \E i \in 1..Len(path) :
          \/ path[i] \in {<<".master">>, <<".git-config">>, <<".DS_Store">>}
          \/ path[i][Len(path[i])] \in {".tmp", ".swp", "~"}

\* worktree.Add("."): every file of the working tree that .gitignore (when
\* there is one) does not exclude
Staged(wt, g) == {e \in wt : ~(g.gitignore /\ Ignored(e.path))}

\* a tree: the staged secret files with their blobs, the keyfile bytes when
\* the keyfile is staged, and whether .gitignore, a cache file, .git-config are
NoTree == [enc |-> <<>>, keyfile |-> "none", gitignore |-> FALSE, cache |-> FALSE,
           gitconfig |-> FALSE]

TreeOf(fs, kf, mir, sess, g) ==
    LET st == Staged(WorkTree(fs, kf, mir, sess, g), g)
        sec == {f \in DOMAIN fs : IsPrefix(BaseDir, f) /\ Len(f) > Len(BaseDir)
                                   /\ [path |-> RelPath(f), kind |-> "secret"] \in st}
    IN  [enc |-> [f \in sec |-> fs[f]],
         keyfile |-> IF \E e \in st : e.kind = "keyfile" THEN kf ELSE "none",
         gitignore |-> \E e \in st : e.kind = "gitignore",
         cache |-> \E e \in st : e.kind \in {"mirror", "session"},
         gitconfig |-> \E e \in st : e.kind = "gitconfig"]

\* the repository and its remote: whether <store>/.git exists, whether origin
\* is configured, the tree of HEAD, the messages of the commits the remote
\* does not have, the remote's tree (remoteEmpty: it has no commit), whether
\* .gitignore and .git-config exist, the auto-sync setting
NoGit == [repo |-> FALSE, origin |-> FALSE, head |-> NoTree, unpushed |-> <<>>,
          remote |-> NoTree, remoteEmpty |-> TRUE, gitignore |-> FALSE,
          cfgURL |-> FALSE, autoSync |-> TRUE]

\* GitSync.ensureGitignore, as NewGitSync calls it on an existing repository
ensureGitignore(g) == IF g.repo THEN [g EXCEPT !.gitignore = TRUE] ELSE g

\* worktree.Status(): the staged tree differs from the tree of HEAD
StatusDirty(g, fs, kf, mir, sess) == TreeOf(fs, kf, mir, sess, g) # g.head

\* GitSync.commitChanges
commitChanges(g, fs, kf, mir, sess, message) ==
    IF ~g.repo THEN [g |-> g, err |-> "Git repository not initialized"]
    ELSE IF ~StatusDirty(g, fs, kf, mir, sess) THEN [g |-> g, err |-> ""]
    ELSE [g |-> [g EXCEPT !.head = TreeOf(fs, kf, mir, sess, g),
                          !.unpushed = Append(g.unpushed, message)],
          err |-> ""]

\* GitSync.Push: no other clone pushes to the remote of this model, so the
\* remote's history is a prefix of the local one and a push that reaches the
\* remote is a fast-forward (a repository of the tool has a commit from its
\* creation on: initLocalRepository commits .gitignore)
Push(g, pushFails) ==
    IF ~g.repo THEN [g |-> g, err |-> "Git repository not initialized"]
    ELSE IF pushFails \/ ~g.origin THEN [g |-> g, err |-> "failed to push changes"]
    ELSE [g |-> [g EXCEPT !.remote = g.head, !.unpushed = <<>>, !.remoteEmpty = FALSE],
          err |-> ""]

\* GitSync.Pull: an empty remote is an error; otherwise the remote's history
\* is a prefix of the local one: already up to date
Pull(g, pullFails) ==
    IF ~g.repo THEN [g |-> g, err |-> "Git repository not initialized"]
    ELSE IF pullFails \/ ~g.origin \/ g.remoteEmpty THEN [g |-> g, err |-> "failed to pull changes"]
    ELSE [g |-> g, err |-> ""]

\* GitSync.CommitAndPushChanges
CommitAndPushChanges(g, fs, kf, mir, sess, message, pushFails) ==
    LET c == commitChanges(g, fs, kf, mir, sess, message)
    IN  IF c.err # "" THEN c
        ELSE IF g.cfgURL THEN Push(c.g, pushFails)
        ELSE c

\* Store.autoCommit, the Store built by NewWithGitConfig: gitSync is nil
\* unless a URL is configured; NewGitSync brings .gitignore up to date
autoCommit(g, fs, kf, mir, sess, message) ==
    IF ~g.cfgURL \/ ~g.autoSync THEN g
    ELSE commitChanges(ensureGitignore(g), fs, kf, mir, sess, message).g

\* ------------------------------------------------------------------ actions
\* names that nest directories, for the pruning of Remove
PruneNames == {<<"a">>, <<"d", "/", "b">>, <<"d", "/", "d", "/", "b">>}

\* names as the command line hands them over unchecked: with a leading
\* separator, and with ".." as the first component
EscapeNames == {<<"/", "a">>, <<"..", "/", "d", "/", "b">>}

AllPaths == {getPasswordFilePath(n) : n \in Names \cup PruneNames \cup EscapeNames}

\* last: the call that returned last, the error or value it returned, whether a
\* CachePassword call it made returned an error, whether its read of a cache
\* file failed
Idle == [op |-> "none", res |-> "", cacheErr |-> FALSE, readFails |-> FALSE,
         name |-> <<>>, masterPassword |-> "", out |-> <<>>]

\* a process that is in no store call
NoCall == [pc |-> "idle", op |-> "none", name |-> <<>>, password |-> <<>>,
           masterPassword |-> "", cacheErr |-> FALSE]

Init ==
    /\ files = <<>>
    /\ dirs = {<<>>, BaseDir}
    /\ keyfile = KeyFileBytes
    /\ mirror = NoMirror
    /\ sessionFile = NoSession
    /\ mem = [p \in Procs |-> EmptyMem]
    /\ timeout \in Timeouts
    /\ diskFault \in StoreFailures
    /\ now = 1
    /\ written = [f \in AllPaths |-> NoWrite]
    /\ sinceClear = "none"
    /\ proc = [p \in Procs |-> NoCall]
    /\ git = NoGit
    /\ initRec = [kf |-> KeyFileBytes, pw |-> ""]
    /\ tmpDir = {}
    /\ thread = [p \in Procs |-> NoThread]
    /\ mu = NoLock
    /\ last = Idle

\* a store call returns: the world it left becomes the state
Commit(p, r) ==
    /\ files' = r.w.files
    /\ dirs' = r.w.dirs \cup (IF r.w.cs.cdir THEN {CacheDir} ELSE {})
    /\ mirror' = r.w.cs.mirror
    /\ sessionFile' = r.w.cs.sess
    /\ mem' = [mem EXCEPT ![p] = r.w.cs.m]
    /\ tmpDir' = r.w.tmp

\* the Git state a store call that returned r leaves: Insert, Update and Remove
\* end in autoCommit("<verb> password for <name>") when they succeed
GitAfter(r, verb, name) ==
    IF r.res = "ok"
    THEN autoCommit(git, r.w.files, keyfile, r.w.cs.mirror, r.w.cs.sess, <<verb, name>>)
    ELSE git

Returned(op, r) == [Idle EXCEPT !.op = op, !.res = r.res, !.cacheErr = r.cacheErr]

Insert(p, name, password, masterPassword) ==
    \E r \in {StoreInsert(World(p), keyfile, name, password, masterPassword, now, timeout, diskFault)} :
        /\ Commit(p, r)
        /\ written' = IF r.res = "ok"
                      THEN [written EXCEPT ![getPasswordFilePath(name)] =
                                [set |-> TRUE, pt |-> password, cred |-> masterPassword]]
                      ELSE written
        /\ last' = [Returned("Insert", r) EXCEPT !.name = name]
        /\ git' = GitAfter(r, "Add", name)
        /\ UNCHANGED <<keyfile, timeout, diskFault, now, sinceClear, proc, initRec, thread, mu>>

Update(p, name, password, masterPassword) ==
    \E r \in {StoreUpdate(World(p), keyfile, name, password, masterPassword, now, timeout, diskFault)} :
        /\ Commit(p, r)
        /\ written' = IF r.res = "ok"
                      THEN [written EXCEPT ![getPasswordFilePath(name)] =
                                [set |-> TRUE, pt |-> password, cred |-> masterPassword]]
                      ELSE written
        /\ last' = Returned("Update", r)
        /\ git' = GitAfter(r, "Update", name)
        /\ UNCHANGED <<keyfile, timeout, diskFault, now, sinceClear, proc, initRec, thread, mu>>

Show(p, name, masterPassword) ==
    \E r \in {StoreShow(World(p), keyfile, name, masterPassword, now, timeout, diskFault)} :
        /\ Commit(p, r)
        /\ UNCHANGED written
        /\ last' = Returned("Show", r)
        /\ UNCHANGED <<keyfile, timeout, diskFault, now, sinceClear, proc, git, initRec, tmpDir, thread, mu>>

Remove(p, name) ==
    \E r \in {StoreRemove(World(p), name)} :
        /\ Commit(p, r)
        /\ written' = IF r.res = "ok"
                      THEN [written EXCEPT ![getPasswordFilePath(name)] = NoWrite]
                      ELSE written
        /\ last' = [Returned("Remove", r) EXCEPT !.name = name]
        /\ git' = GitAfter(r, "Remove", name)
        /\ UNCHANGED <<keyfile, timeout, diskFault, now, sinceClear, proc, initRec, thread, mu>>

Edit(p, name, masterPassword, editor) ==
    \E r \in {StoreEdit(World(p), keyfile, name, masterPassword, editor, now, timeout, diskFault)} :
        /\ Commit(p, r)
        /\ written' = IF r.res = "ok"
                      THEN [written EXCEPT ![getPasswordFilePath(name)] =
                                [set |-> TRUE, pt |-> TrimNewline(editor.content), cred |-> masterPassword]]
                      ELSE written
        /\ last' = Returned("Edit", r)
        /\ git' = GitAfter(r, "Update", name)
        /\ UNCHANGED <<keyfile, timeout, diskFault, now, sinceClear, proc, initRec, thread, mu>>

\* the content of the secret as Edit hands it to the editor
CurrentContent(name) ==
    LET path == getPasswordFilePath(name)
    IN  IF path \in DOMAIN files THEN files[path].pt ELSE <<>>

\* sinceClear after a call of Set that returned err: "cleared" while no Set was
\* called since the last Clear, "failedSet" while every Set since returned an
\* error, "none" otherwise
AfterSet(err) == IF err = "" \/ sinceClear = "none" THEN "none" ELSE "failedSet"

CommitCache(p, cs) ==
    /\ mirror' = cs.mirror
    /\ sessionFile' = cs.sess
    /\ mem' = [mem EXCEPT ![p] = cs.m]
    /\ dirs' = dirs \cup (IF cs.cdir THEN {CacheDir} ELSE {})
    /\ UNCHANGED <<files, keyfile, timeout, diskFault, now, written, git, initRec, tmpDir, thread, mu>>

Set(p, password, fail) ==
    LET cs == CacheSet(CacheState(p), password, now, timeout, fail)
    IN  /\ CommitCache(p, [cs EXCEPT !.err = ""])
        /\ sinceClear' = AfterSet(cs.err)
        /\ UNCHANGED proc
        /\ last' = [Idle EXCEPT !.op = "Set",
                                !.res = IF cs.err = "" THEN "ok" ELSE cs.err]

\* a panic in Get ends the process; the next call of p is a new process's
Get(p, readFails) ==
    LET g == CacheGet(CacheState(p), now, readFails)
    IN  /\ CommitCache(p, IF g.panic THEN [g.cs EXCEPT !.m = EmptyMem] ELSE g.cs)
        /\ UNCHANGED <<sinceClear, proc>>
        /\ last' = [Idle EXCEPT !.op = "Get", !.readFails = readFails,
                                !.res = IF g.panic THEN "panic"
                                        ELSE IF g.found THEN "hit" ELSE "miss"]

Validate(p, readFails) ==
    /\ last' = [Idle EXCEPT !.op = "ValidateSession", !.readFails = readFails,
                            !.res = IF ValidateSession(CacheState(p), readFails)
                                    THEN "true" ELSE "false"]
    /\ UNCHANGED <<files, dirs, keyfile, mirror, sessionFile, mem, timeout, diskFault, now, written, sinceClear, proc, git, initRec, tmpDir, thread, mu>>

Clear(p) ==
    /\ CommitCache(p, CacheClear(CacheState(p)))
    /\ sinceClear' = "cleared"
    /\ UNCHANGED proc
    /\ last' = [Idle EXCEPT !.op = "Clear", !.res = "ok"]

\* the invocation ends and the next one starts: a process with an empty memory
Restart(p) ==
    /\ mem[p] # EmptyMem
    /\ mem' = [mem EXCEPT ![p] = EmptyMem]
    /\ last' = Idle
    /\ UNCHANGED <<files, dirs, keyfile, mirror, sessionFile, timeout, diskFault, now, written, sinceClear, proc, git, initRec, tmpDir, thread, mu>>

Tick ==
    /\ now < MaxTime
    /\ now' = now + 1
    /\ last' = Idle
    /\ UNCHANGED <<files, dirs, keyfile, mirror, sessionFile, mem, timeout, diskFault, written, sinceClear, proc, git, initRec, tmpDir, thread, mu>>

\* what something other than the tool can leave in password.cache: bytes that
\* do not parse, or the record with one field damaged
Damaged(e) ==
    {JunkMirror} \cup
    (IF e.kind = "entry"
     THEN {[e EXCEPT !.nonce = "badlen"], [e EXCEPT !.ctok = FALSE], [e EXCEPT !.sid = 0]}
     ELSE {})

CorruptMirror(e) ==
    /\ mirror.kind = "entry"
    /\ mirror = saveToDisk([pw |-> mirror.pw, exp |-> mirror.exp, sid |-> mirror.sid])
    /\ e \in Damaged(mirror)
    /\ e # mirror
    /\ mirror' = e
    /\ last' = Idle
    /\ UNCHANGED <<files, dirs, keyfile, sessionFile, mem, timeout, diskFault, now, written, sinceClear, proc, git, initRec, tmpDir, thread, mu>>

\* the session file is damaged (its bytes are no session ID) or deleted
CorruptSession(s) ==
    /\ sessionFile.exists
    /\ s # sessionFile
    /\ sessionFile' = s
    /\ last' = Idle
    /\ UNCHANGED <<files, dirs, keyfile, mirror, mem, timeout, diskFault, now, written, sinceClear, proc, git, initRec, tmpDir, thread, mu>>

\* another invocation of the tool caches a password and exits
OtherSet(password, fail) ==
    LET cs == CacheSet(CacheState(Other), password, now, timeout, fail)
    IN  /\ CommitCache(Other, [cs EXCEPT !.m = EmptyMem, !.err = ""])
        /\ sinceClear' = AfterSet(cs.err)
        /\ UNCHANGED proc
        /\ last' = Idle

\* two processes, each in a call of Insert or Update, the steps of which
\* interleave: a call is the sequence validate (part_001 76-81, 117-122),
\* Exists (84-86, Insert only), write (88-111, 124-147)
CallValidate(p, op, name, password, masterPassword) ==
    /\ proc[p].pc = "idle"
    /\ \E v \in {validatePasswordIfNeeded(World(p), keyfile, masterPassword, now, timeout, diskFault)} :
        IF v.err # ""
        THEN /\ proc' = [proc EXCEPT ![p] = [NoCall EXCEPT !.pc = "done"]]
             /\ last' = [Idle EXCEPT !.op = op, !.res = "password validation failed"]
             /\ UNCHANGED <<files, dirs, mirror, sessionFile, mem, tmpDir>>
        ELSE /\ proc' = [proc EXCEPT ![p] =
                            [pc |-> IF op = "Insert" THEN "exists" ELSE "write",
                             op |-> op, name |-> name, password |-> password,
                             masterPassword |-> masterPassword, cacheErr |-> v.cacheErr]]
             /\ last' = Idle
             /\ Commit(p, [w |-> [World(p) EXCEPT !.cs = v.cs]])
    /\ UNCHANGED <<keyfile, timeout, diskFault, now, sinceClear, written, git, initRec, thread, mu>>

InsertValidate(p, name, password, masterPassword) ==
    CallValidate(p, "Insert", name, password, masterPassword)

UpdateValidate(p, name, password, masterPassword) ==
    CallValidate(p, "Update", name, password, masterPassword)

InsertExists(p) ==
    /\ proc[p].pc = "exists"
    /\ IF Exists(World(p), proc[p].name)
       THEN /\ proc' = [proc EXCEPT ![p] = [NoCall EXCEPT !.pc = "done"]]
            /\ last' = [Idle EXCEPT !.op = "Insert", !.res = "already exists",
                                    !.cacheErr = proc[p].cacheErr]
       ELSE /\ proc' = [proc EXCEPT ![p].pc = "write"]
            /\ last' = Idle
    /\ UNCHANGED <<files, dirs, keyfile, mirror, sessionFile, mem, timeout, diskFault, now,
                   written, sinceClear, git, initRec, tmpDir, thread, mu>>

WriteSecret(p) ==
    /\ proc[p].pc = "write"
    /\ \E r \in {EncryptAndWrite(World(p), keyfile, proc[p].name, proc[p].password,
                                  proc[p].masterPassword, now, timeout, diskFault,
                                  proc[p].cacheErr)} :
        /\ Commit(p, r)
        /\ written' = IF r.res = "ok"
                      THEN [written EXCEPT ![getPasswordFilePath(proc[p].name)] =
                                [set |-> TRUE, pt |-> proc[p].password,
                                 cred |-> proc[p].masterPassword]]
                      ELSE written
        /\ last' = Returned(proc[p].op, r)
        /\ git' = GitAfter(r, IF proc[p].op = "Insert" THEN "Add" ELSE "Update", proc[p].name)
    /\ proc' = [proc EXCEPT ![p] = [NoCall EXCEPT !.pc = "done"]]
    /\ UNCHANGED <<keyfile, timeout, diskFault, now, sinceClear, initRec, thread, mu>>

ConcNext ==
    \/ \E p \in Procs, n \in Names, pt \in Plaintexts, c \in Creds : InsertValidate(p, n, pt, c)
    \/ \E p \in Procs, n \in Names, pt \in Plaintexts, c \in Creds : UpdateValidate(p, n, pt, c)
    \/ \E p \in Procs : InsertExists(p)
    \/ \E p \in Procs : WriteSecret(p)

\* one call per process, on an empty store
ConcInit == Init /\ timeout = 1 /\ diskFault = "none"
ConcSpec == ConcInit /\ [][ConcNext]_vars

\* ---------------------------------------------------------------- init, git
\* recovery phrases: "bad" fails the BIP-39 checksum; the keyfile is the first
\* 32 bytes of the seed of the phrase
Mnemonics == {"m1", "m2", "bad"}
KeyFileOf(mnemonic) == IF mnemonic = "m1" THEN KeyFileBytes ELSE "k2"

\* the state init and the git commands act on
Disk == [files |-> files, dirs |-> dirs, keyfile |-> keyfile, git |-> git, err |-> ""]

\* whether the store directory holds anything (os.ReadDir)
StoreDirEmpty(d) ==
    /\ ~\E f \in DOMAIN d.files : IsPrefix(BaseDir, f) /\ Len(f) > Len(BaseDir)
    /\ ~\E x \in d.dirs : IsPrefix(BaseDir, x) /\ Len(x) > Len(BaseDir)
    /\ d.keyfile = "none" /\ mirror.kind = "none" /\ ~sessionFile.exists
    /\ ~d.git.repo /\ ~d.git.gitignore /\ ~d.git.cfgURL

\* GitSync.initLocalRepository
initLocalRepository(d) ==
    LET g1 == [d.git EXCEPT !.repo = TRUE, !.origin = TRUE, !.gitignore = TRUE]
        c == commitChanges(g1, d.files, d.keyfile, mirror, sessionFile,
                           <<"Initialize password store", <<>> >>)
    IN  [d EXCEPT !.dirs = d.dirs \cup {BaseDir}, !.git = c.g]

\* GitSync.cloneFromRemote: the work tree is the remote's tree
cloneFromRemote(d, cloneFails) ==
    IF cloneFails THEN [d EXCEPT !.err = "failed to clone repository"]
    ELSE IF d.git.remoteEmpty THEN initLocalRepository(d)
    ELSE [d EXCEPT !.dirs = d.dirs \cup UNION {Prefixes(Dir(f)) : f \in DOMAIN d.git.remote.enc}
                                   \cup {BaseDir},
                   !.files = [f \in DOMAIN d.files \cup DOMAIN d.git.remote.enc |->
                                 IF f \in DOMAIN d.git.remote.enc THEN d.git.remote.enc[f]
                                 ELSE d.files[f]],
                   !.keyfile = d.git.remote.keyfile,
                   !.git = [d.git EXCEPT !.repo = TRUE, !.origin = TRUE, !.gitignore = TRUE,
                                         !.head = d.git.remote, !.unpushed = <<>>]]

\* GitSync.InitializeWithRemote
InitializeWithRemote(d, cloneFails) ==
    IF BaseDir \in d.dirs /\ d.git.repo THEN [d EXCEPT !.git.origin = TRUE]
    ELSE IF BaseDir \in d.dirs /\ ~StoreDirEmpty(d)
    THEN [d EXCEPT !.err = "store directory is not empty and not a Git repository"]
    ELSE cloneFromRemote(d, cloneFails)

\* Crypto.CreateKeyFileFromMnemonic
CreateKeyFileFromMnemonic(d, mnemonic) ==
    IF mnemonic = "bad" THEN [d EXCEPT !.err = "invalid mnemonic phrase"]
    ELSE [d EXCEPT !.keyfile = KeyFileOf(mnemonic)]

\* Config.SaveGitConfig, as init calls it
SaveGitConfig(d, withGit) == IF withGit THEN [d EXCEPT !.git.cfgURL = TRUE] ELSE d

\* initCmd.RunE.  withGit: --git-url is given; entered: the phrase the user
\* types for an existing store; generated: the phrase GenerateMnemonic draws
initCmd(d, withGit, cloneFails, entered, generated, masterPassword, confirmPassword) ==
    LET d1 == IF withGit
              THEN InitializeWithRemote([d EXCEPT !.git = ensureGitignore(d.git)], cloneFails)
              ELSE [d EXCEPT !.dirs = d.dirs \cup {BaseDir}]
        old == CreateKeyFileFromMnemonic(d1, entered)
        new == CreateKeyFileFromMnemonic(d1, generated)
    IN  IF d1.err # "" THEN [d1 EXCEPT !.err = "failed to initialize Git repository"]
        ELSE IF EncFiles(d1.files) # {}
        THEN IF old.err # "" THEN [old EXCEPT !.err = "failed to create keyfile from recovery phrase"]
             ELSE [SaveGitConfig(old, withGit) EXCEPT !.err = "ok existing"]
        ELSE IF d1.keyfile # "none" THEN [d1 EXCEPT !.err = "password store already initialized"]
        ELSE IF masterPassword = "" THEN [new EXCEPT !.err = "master password cannot be empty"]
        ELSE IF masterPassword # confirmPassword THEN [new EXCEPT !.err = "passwords do not match"]
        ELSE [SaveGitConfig(new, withGit) EXCEPT !.err = "ok new"]

\* gitPushCmd.RunE
gitPushCmd(d, pushFails) ==
    LET g == ensureGitignore(d.git)
        r == IF StatusDirty(g, d.files, d.keyfile, mirror, sessionFile)
             THEN CommitAndPushChanges(g, d.files, d.keyfile, mirror, sessionFile,
                                       <<"Update password store", <<>> >>, pushFails)
             ELSE Push(g, pushFails)
    IN  IF ~g.repo THEN [d EXCEPT !.err = "Git is not initialized"]
        ELSE [d EXCEPT !.git = r.g, !.err = IF r.err = "" THEN "ok" ELSE r.err]

\* gitPullCmd.RunE
gitPullCmd(d, pullFails) ==
    LET g == ensureGitignore(d.git)
        r == Pull(g, pullFails)
    IN  IF ~g.repo THEN [d EXCEPT !.err = "Git is not initialized"]
        ELSE [d EXCEPT !.git = r.g, !.err = IF r.err = "" THEN "ok" ELSE r.err]

\* gitSyncCmd.RunE
gitSyncCmd(d, pullFails, pushFails) ==
    LET g == ensureGitignore(d.git)
        pl == Pull(g, pullFails)
        r == IF StatusDirty(pl.g, d.files, d.keyfile, mirror, sessionFile)
             THEN CommitAndPushChanges(pl.g, d.files, d.keyfile, mirror, sessionFile,
                                       <<"Sync password store", <<>> >>, pushFails)
             ELSE [g |-> pl.g, err |-> ""]
    IN  IF ~g.repo THEN [d EXCEPT !.err = "Git is not initialized"]
        ELSE IF pl.err # "" THEN [d EXCEPT !.git = pl.g, !.err = pl.err]
        ELSE [d EXCEPT !.git = r.g, !.err = IF r.err = "" THEN "ok" ELSE r.err]

\* a command of this section returns: the disk it left becomes the state
CommitDisk(op, d) ==
    /\ files' = d.files
    /\ dirs' = d.dirs
    /\ keyfile' = d.keyfile
    /\ git' = d.git
    /\ last' = [Idle EXCEPT !.op = op, !.res = d.err]
    /\ UNCHANGED <<mirror, sessionFile, mem, timeout, diskFault, now, written, sinceClear, proc,
                   tmpDir, thread, mu>>

InitStore(withGit, cloneFails, entered, generated, masterPassword, confirmPassword) ==
    \E d \in {initCmd(Disk, withGit, cloneFails, entered, generated, masterPassword,
                      confirmPassword)} :
        /\ CommitDisk("init", d)
        /\ initRec' = [kf |-> IF initRec.kf = "none" THEN d.keyfile ELSE initRec.kf,
                       pw |-> IF d.err = "ok new" THEN masterPassword ELSE initRec.pw]

GitPush(pushFails) ==
    CommitDisk("git push", gitPushCmd(Disk, pushFails)) /\ UNCHANGED initRec

GitPull(pullFails) ==
    CommitDisk("git pull", gitPullCmd(Disk, pullFails)) /\ UNCHANGED initRec

GitSync(pullFails, pushFails) ==
    CommitDisk("git sync", gitSyncCmd(Disk, pullFails, pushFails)) /\ UNCHANGED initRec

\* the commits the remote does not have, at most
MaxUnpushed == 1

\* a store that is yet to be initialized, and every command of the tool on it.
\* The store commands need the store directory (NewWithGitConfig).
NewStoreInit ==
    /\ files = <<>>
    /\ dirs = {<<>>}
    /\ keyfile = "none"
    /\ mirror = NoMirror
    /\ sessionFile = NoSession
    /\ mem = [p \in Procs |-> EmptyMem]
    /\ timeout = 1
    /\ diskFault = "none"
    /\ now = 1
    /\ written = [f \in AllPaths |-> NoWrite]
    /\ sinceClear = "none"
    /\ proc = [p \in Procs |-> NoCall]
    /\ \E a \in BOOLEAN : git = [NoGit EXCEPT !.autoSync = a]
    /\ initRec = [kf |-> "none", pw |-> ""]
    /\ tmpDir = {}
    /\ thread = [p \in Procs |-> NoThread]
    /\ mu = NoLock
    /\ last = Idle

\* the names and plaintexts of the store commands beside init and git
GitNames == {<<"a">>, <<"d", "/", "b">>}
GitPlaintexts == {<<"p">>}

StoreCommand(creds) ==
    \/ \E n \in GitNames, pt \in GitPlaintexts, c \in creds : Insert(Main, n, pt, c)
    \/ \E n \in GitNames, pt \in GitPlaintexts, c \in creds : Update(Main, n, pt, c)
    \/ \E n \in GitNames : Remove(Main, n)
    \/ \E n \in GitNames, c \in creds :
            \E ed \in EditorOutcomes(CurrentContent(n)) : Edit(Main, n, c, ed)

\* init without --git-url, with every phrase and password, and the store commands
InitNext ==
    \/ \E e \in Mnemonics, gen \in Mnemonics \ {"bad"}, c \in Creds \cup {""}, c2 \in Creds :
            InitStore(FALSE, FALSE, e, gen, c, c2)
    \/ BaseDir \in dirs /\ StoreCommand(Creds)

InitSpec == NewStoreInit /\ [][InitNext]_vars

\* init with and without --git-url, the store commands that end in autoCommit,
\* with one credential, and the git commands
GitNext ==
    \/ \E wg, cf \in BOOLEAN, e \in {"m1", "bad"}, c \in {"c1", ""} :
            InitStore(wg, cf, e, "m1", c, "c1")
    \/ /\ BaseDir \in dirs /\ Len(git.unpushed) < MaxUnpushed
       /\ \/ \E n \in GitNames, pt \in GitPlaintexts : Insert(Main, n, pt, "c1")
          \/ \E n \in GitNames, pt \in GitPlaintexts : Update(Main, n, pt, "c1")
          \/ \E n \in GitNames : Remove(Main, n)
    \/ \E pf \in BOOLEAN : GitPush(pf)
    \/ \E pf \in BOOLEAN : GitPull(pf)
    \/ \E lf, pf \in BOOLEAN : GitSync(lf, pf)

GitSpec == NewStoreInit /\ [][GitNext]_vars

\* the store's operations, one call at a time
Next ==
    \/ \E n \in Names, pt \in Plaintexts, c \in Creds : Insert(Main, n, pt, c)
    \/ \E n \in Names, pt \in Plaintexts, c \in Creds : Update(Main, n, pt, c)
    \/ \E n \in Names, c \in Creds : Show(Main, n, c)
    \/ \E n \in Names : Remove(Main, n)
    \/ \E n \in Names, c \in Creds :
            \E ed \in EditorOutcomes(CurrentContent(n)) : Edit(Main, n, c, ed)

\* (the store never reads the clock or the timeout)
StoreInit == Init /\ timeout = 1
Spec == StoreInit /\ [][Next]_vars

\* Insert and Remove on names that nest directories
PruneNext ==
    \/ \E n \in PruneNames, pt \in GitPlaintexts, c \in Creds : Insert(Main, n, pt, c)
    \/ \E n \in PruneNames : Remove(Main, n)

PruneSpec == StoreInit /\ [][PruneNext]_vars

\* Crypto.Encrypt and Crypto.Decrypt on their own: the keyfile is drawn at the
\* start and stays; the blob of the last Encrypt is kept at CipherPath, with
\* what was encrypted in written; last holds what Decrypt returned
CipherPath == getPasswordFilePath(<<"a">>)
CipherCreds == Creds \cup {""}
CipherPlaintexts == Plaintexts \cup {<<>>}

CipherInit ==
    /\ files = <<>>
    /\ dirs = {<<>>, BaseDir}
    /\ keyfile \in {KeyFileBytes, "k2", "none"}
    /\ mirror = NoMirror
    /\ sessionFile = NoSession
    /\ mem = [p \in Procs |-> EmptyMem]
    /\ timeout = 1
    /\ diskFault = "none"
    /\ now = 1
    /\ written = [f \in AllPaths |-> NoWrite]
    /\ sinceClear = "none"
    /\ proc = [p \in Procs |-> NoCall]
    /\ git = NoGit
    /\ initRec = [kf |-> "none", pw |-> ""]
    /\ tmpDir = {}
    /\ thread = [p \in Procs |-> NoThread]
    /\ mu = NoLock
    /\ last = Idle

CipherEncrypt(data, masterPassword) ==
    LET e == Encrypt(keyfile, data, masterPassword, FreshSalt(files))
    IN  /\ files' = IF e.err = "" THEN [f \in {CipherPath} |-> e.blob] ELSE files
        /\ written' = IF e.err = ""
                      THEN [written EXCEPT ![CipherPath] =
                                [set |-> TRUE, pt |-> data, cred |-> masterPassword]]
                      ELSE written
        /\ last' = [Idle EXCEPT !.op = "Encrypt", !.res = e.err,
                                !.masterPassword = masterPassword]
        /\ UNCHANGED <<dirs, keyfile, mirror, sessionFile, mem, timeout, diskFault, now,
                       sinceClear, proc, git, initRec, tmpDir, thread, mu>>

CipherDecrypt(masterPassword) ==
    /\ CipherPath \in DOMAIN files
    /\ LET d == Decrypt(keyfile, files[CipherPath], masterPassword)
       IN  last' = [Idle EXCEPT !.op = "Decrypt", !.res = d.err, !.out = d.pt,
                                !.masterPassword = masterPassword]
    /\ UNCHANGED <<files, dirs, keyfile, mirror, sessionFile, mem, timeout, diskFault, now,
                   written, sinceClear, proc, git, initRec, tmpDir, thread, mu>>

CipherNext ==
    \/ \E data \in CipherPlaintexts, c \in CipherCreds : CipherEncrypt(data, c)
    \/ \E c \in CipherCreds : CipherDecrypt(c)

CipherSpec == CipherInit /\ [][CipherNext]_vars

\* the cache's operations, the clock, and what can happen to the cache files
CacheNext ==
    \/ \E c \in Creds, f \in SetFailures : Set(Main, c, f)
    \/ \E rf \in BOOLEAN : Get(Main, rf)
    \/ \E rf \in BOOLEAN : Validate(Main, rf)
    \/ Clear(Main)
    \/ Restart(Main)
    \/ \E c \in Creds, f \in SetFailures : OtherSet(c, f)
    \/ Tick
    \/ \E e \in Damaged(mirror) : CorruptMirror(e)
    \/ \E s \in {NoSession, [exists |-> TRUE, data |-> 0]} : CorruptSession(s)

\* (diskFault is the store's; each call of Set here has its own fault)
CacheInit == Init /\ diskFault = "none"
CacheSpec == CacheInit /\ [][CacheNext]_vars

\* ------------------------------------------------- threads of one process
\* The threads of the process Main call the cache at the same time: they share
\* mem[Main] and the two cache files, and PasswordCache.mu orders them.  A
\* call is the sequence of its lock operations and of what it does between.
Threads == Procs

RLock(t) == mu.writer = 0 /\ mu' = [mu EXCEPT !.readers = mu.readers \cup {t}]
RUnlock(t) == mu' = [mu EXCEPT !.readers = mu.readers \ {t}]
Lock(t) == mu.writer = 0 /\ mu.readers = {} /\ mu' = [mu EXCEPT !.writer = t]
Unlock(t) == mu' = [mu EXCEPT !.writer = 0]

At(t, op, pc) == thread[t].op = op /\ thread[t].pc = pc
Goto(t, op, pc) == thread' = [thread EXCEPT ![t].op = op, ![t].pc = pc]
ThreadReturns(t) == thread' = [thread EXCEPT ![t] = NoThread]

\* the variables no cache call touches
CacheFrame == UNCHANGED <<files, keyfile, timeout, diskFault, now, written, sinceClear, proc,
                          git, initRec, tmpDir>>

\* Get, cache.go 46: pc.mu.RLock()
TGetRLock(t) ==
    /\ At(t, "none", "idle") /\ RLock(t) /\ Goto(t, "Get", "rlocked")
    /\ last' = Idle
    /\ CacheFrame /\ UNCHANGED <<dirs, mirror, sessionFile, mem>>

\* Get, cache.go 48-52: the check of the memory, and RUnlock on either branch
TGetCheck(t) ==
    /\ At(t, "Get", "rlocked") /\ RUnlock(t)
    /\ IF mem[Main].pw # "" /\ now < mem[Main].exp
       THEN ThreadReturns(t) /\ last' = [Idle EXCEPT !.op = "Get", !.res = "hit"]
       ELSE Goto(t, "Get", "lock") /\ last' = Idle
    /\ CacheFrame /\ UNCHANGED <<dirs, mirror, sessionFile, mem>>

\* Get, cache.go 55: pc.mu.Lock()
TGetLock(t) ==
    /\ At(t, "Get", "lock") /\ Lock(t) /\ Goto(t, "Get", "locked")
    /\ last' = Idle
    /\ CacheFrame /\ UNCHANGED <<dirs, mirror, sessionFile, mem>>

\* Get, cache.go 56-64: loadFromDisk under the write lock, the deferred Unlock
TGetLoad(t) ==
    /\ At(t, "Get", "locked") /\ Unlock(t) /\ ThreadReturns(t)
    /\ LET l == loadFromDisk(CacheState(Main), now, FALSE)
       IN  /\ mem' = [mem EXCEPT ![Main] = IF l.loaded THEN [l.cs.m EXCEPT !.pw = l.pw]
                                           ELSE l.cs.m]
           /\ mirror' = l.cs.mirror
           /\ last' = [Idle EXCEPT !.op = "Get", !.res = IF l.loaded THEN "hit" ELSE "miss"]
    /\ CacheFrame /\ UNCHANGED <<dirs, sessionFile>>

\* Set, cache.go 69: pc.mu.Lock()
TSetLock(t, password) ==
    /\ At(t, "none", "idle") /\ Lock(t)
    /\ thread' = [thread EXCEPT ![t].op = "Set", ![t].pc = "locked", ![t].password = password]
    /\ last' = Idle
    /\ CacheFrame /\ UNCHANGED <<dirs, mirror, sessionFile, mem>>

\* Set, cache.go 73-81: the new session ID, the password and the expiration
TSetMemory(t) ==
    /\ At(t, "Set", "locked") /\ Goto(t, "Set", "mirror")
    /\ mem' = [mem EXCEPT ![Main] = [pw |-> thread[t].password, exp |-> now + timeout,
                                     sid |-> FreshSession(CacheState(Main))]]
    /\ last' = Idle
    /\ CacheFrame /\ UNCHANGED <<dirs, mirror, sessionFile, mu>>

\* Set, cache.go 84-91: MkdirAll and saveToDisk
TSetMirror(t) ==
    /\ At(t, "Set", "mirror") /\ Goto(t, "Set", "session")
    /\ dirs' = dirs \cup {CacheDir}
    /\ mirror' = saveToDisk(mem[Main])
    /\ last' = Idle
    /\ CacheFrame /\ UNCHANGED <<sessionFile, mem, mu>>

\* Set, cache.go 94-95: the session file, and the deferred Unlock
TSetSession(t) ==
    /\ At(t, "Set", "session") /\ Unlock(t) /\ ThreadReturns(t)
    /\ sessionFile' = [exists |-> TRUE, data |-> mem[Main].sid]
    /\ last' = [Idle EXCEPT !.op = "Set", !.res = "ok"]
    /\ CacheFrame /\ UNCHANGED <<dirs, mirror, mem>>

\* Clear, cache.go 100: pc.mu.Lock()
TClearLock(t) ==
    /\ At(t, "none", "idle") /\ Lock(t) /\ Goto(t, "Clear", "locked")
    /\ last' = Idle
    /\ CacheFrame /\ UNCHANGED <<dirs, mirror, sessionFile, mem>>

\* Clear, cache.go 103-111, and the deferred Unlock
TClear(t) ==
    /\ At(t, "Clear", "locked") /\ Unlock(t) /\ ThreadReturns(t)
    /\ LET cs == CacheClear(CacheState(Main))
       IN  /\ mem' = [mem EXCEPT ![Main] = cs.m]
           /\ mirror' = cs.mirror
           /\ sessionFile' = cs.sess
    /\ last' = [Idle EXCEPT !.op = "Clear", !.res = "ok"]
    /\ CacheFrame /\ UNCHANGED dirs

\* IsExpired and GetRemainingTime, cache.go 116, 124: pc.mu.RLock()
ReadOnlyCalls == {"IsExpired", "GetRemainingTime"}

TReadRLock(t, op) ==
    /\ At(t, "none", "idle") /\ RLock(t) /\ Goto(t, op, "rlocked")
    /\ last' = Idle
    /\ CacheFrame /\ UNCHANGED <<dirs, mirror, sessionFile, mem>>

\* IsExpired and GetRemainingTime, cache.go 117-119, 125-135
TReadReturn(t, op) ==
    /\ At(t, op, "rlocked") /\ RUnlock(t) /\ ThreadReturns(t)
    /\ last' = [Idle EXCEPT !.op = op,
                            !.res = IF mem[Main].pw = "" \/ now >= mem[Main].exp
                                    THEN "expired" ELSE "live"]
    /\ CacheFrame /\ UNCHANGED <<dirs, mirror, sessionFile, mem>>

\* ValidateSession, cache.go 140: pc.mu.RLock()
TValidateRLock(t) ==
    /\ At(t, "none", "idle") /\ RLock(t) /\ Goto(t, "ValidateSession", "rlocked")
    /\ last' = Idle
    /\ CacheFrame /\ UNCHANGED <<dirs, mirror, sessionFile, mem>>

\* ValidateSession, cache.go 141-146: the copy of the session ID, RUnlock, and
\* the return when the copy is empty
TValidateCopy(t) ==
    /\ At(t, "ValidateSession", "rlocked") /\ RUnlock(t)
    /\ IF mem[Main].sid = 0
       THEN /\ ThreadReturns(t)
            /\ last' = [Idle EXCEPT !.op = "ValidateSession", !.res = "false"]
       ELSE /\ thread' = [thread EXCEPT ![t].pc = "readfile", ![t].sid = mem[Main].sid]
            /\ last' = Idle
    /\ CacheFrame /\ UNCHANGED <<dirs, mirror, sessionFile, mem>>

\* ValidateSession, cache.go 148-155: os.ReadFile of the session file and the
\* comparison, with no lock held
TValidateRead(t) ==
    /\ At(t, "ValidateSession", "readfile") /\ ThreadReturns(t)
    /\ last' = [Idle EXCEPT !.op = "ValidateSession",
                            !.res = IF sessionFile.exists /\ sessionFile.data = thread[t].sid
                                    THEN "true" ELSE "false"]
    /\ CacheFrame /\ UNCHANGED <<dirs, mirror, sessionFile, mem, mu>>

LockNext ==
    \/ \E t \in Threads : TGetRLock(t)
    \/ \E t \in Threads : TGetCheck(t)
    \/ \E t \in Threads : TGetLock(t)
    \/ \E t \in Threads : TGetLoad(t)
    \/ \E t \in Threads, c \in Creds : TSetLock(t, c)
    \/ \E t \in Threads : TSetMemory(t)
    \/ \E t \in Threads : TSetMirror(t)
    \/ \E t \in Threads : TSetSession(t)
    \/ \E t \in Threads : TClearLock(t)
    \/ \E t \in Threads : TClear(t)
    \/ \E t \in Threads, op \in ReadOnlyCalls : TReadRLock(t, op)
    \/ \E t \in Threads, op \in ReadOnlyCalls : TReadReturn(t, op)
    \/ \E t \in Threads : TValidateRLock(t)
    \/ \E t \in Threads : TValidateCopy(t)
    \/ \E t \in Threads : TValidateRead(t)

LockSpec == CacheInit /\ [][LockNext]_vars


\* --------------------------------------- processes on one cache directory
\* Two invocations of the tool run at the same time on one store: each has its
\* own memory (mem[p]) and its own mutex, and they share the two cache files.
\* A call is the sequence of its file operations.
MaxRaceTime == 3

\* Get, cache.go 46-52 and loadFromDisk 228-239: the check of the memory, then
\* os.Stat and os.ReadFile of password.cache
PGetRead(p) ==
    /\ At(p, "none", "idle")
    /\ IF mem[p].pw # "" /\ now < mem[p].exp
       THEN /\ last' = [Idle EXCEPT !.op = "Get", !.res = "hit"]
            /\ UNCHANGED thread
       ELSE IF mirror.kind = "none"
       THEN /\ last' = [Idle EXCEPT !.op = "Get", !.res = "miss"]
            /\ UNCHANGED thread
       ELSE /\ thread' = [thread EXCEPT ![p].op = "Get", ![p].pc = "read", ![p].entry = mirror]
            /\ last' = Idle
    /\ CacheFrame /\ UNCHANGED <<dirs, mirror, sessionFile, mem, mu>>

\* loadFromDisk 241-286 on the bytes that were read, and Get 58-64: each
\* os.Remove(cacheFile) removes the file that is on disk when it runs
PGetDecide(p) ==
    /\ At(p, "Get", "read") /\ ThreadReturns(p)
    /\ LET l == loadFromDisk([CacheState(p) EXCEPT !.mirror = thread[p].entry], now, FALSE)
           removed == l.cs.mirror.kind = "none"
       IN  /\ mem' = [mem EXCEPT ![p] = IF l.loaded THEN [l.cs.m EXCEPT !.pw = l.pw]
                                        ELSE l.cs.m]
           /\ mirror' = IF removed THEN NoMirror ELSE mirror
           /\ last' = [Idle EXCEPT !.op = "Get", !.res = IF l.loaded THEN "hit" ELSE "miss"]
    /\ CacheFrame /\ UNCHANGED <<dirs, sessionFile, mu>>

\* Set, cache.go 69-91: the memory, MkdirAll, and the write of password.cache
PSetMirror(p, password) ==
    /\ At(p, "none", "idle") /\ Goto(p, "Set", "session")
    /\ LET m2 == [pw |-> password, exp |-> now + timeout,
                  sid |-> FreshSession(CacheState(p))]
       IN  mem' = [mem EXCEPT ![p] = m2] /\ mirror' = saveToDisk(m2)
    /\ dirs' = dirs \cup {CacheDir}
    /\ last' = Idle
    /\ CacheFrame /\ UNCHANGED <<sessionFile, mu>>

\* Set, cache.go 94-95: the write of the session file
PSetSession(p) ==
    /\ At(p, "Set", "session") /\ ThreadReturns(p)
    /\ sessionFile' = [exists |-> TRUE, data |-> mem[p].sid]
    /\ last' = [Idle EXCEPT !.op = "Set", !.res = "ok"]
    /\ CacheFrame /\ UNCHANGED <<dirs, mirror, mem, mu>>

RaceTick ==
    /\ now < MaxRaceTime
    /\ now' = now + 1
    /\ last' = Idle
    /\ UNCHANGED <<files, dirs, keyfile, mirror, sessionFile, mem, timeout, diskFault, written,
                   sinceClear, proc, git, initRec, tmpDir, thread, mu>>

RaceNext ==
    \/ \E p \in Procs : PGetRead(p)
    \/ \E p \in Procs : PGetDecide(p)
    \/ \E p \in Procs, c \in Creds : PSetMirror(p, c)
    \/ \E p \in Procs : PSetSession(p)
    \/ RaceTick

RaceInit == CacheInit /\ timeout = 1
RaceSpec == RaceInit /\ [][RaceNext]_vars


\* ------------------------------------------------ Insert and Update that fail
\* A store directory that init has created (os.MkdirAll) with or without the
\* keyfile (GenerateMnemonic or the keyfile's os.WriteFile can fail after the
\* directory is made), on a disk where os.WriteFile of a secret succeeds or
\* fails; Insert, Update and Remove on it.
FaultInit ==
    /\ files = <<>>
    /\ dirs = {<<>>, BaseDir}
    /\ keyfile \in {KeyFileBytes, "none"}
    /\ mirror = NoMirror
    /\ sessionFile = NoSession
    /\ mem = [p \in Procs |-> EmptyMem]
    /\ timeout = 1
    /\ diskFault \in WriteFailures
    /\ now = 1
    /\ written = [f \in AllPaths |-> NoWrite]
    /\ sinceClear = "none"
    /\ proc = [p \in Procs |-> NoCall]
    /\ git = NoGit
    /\ initRec = [kf |-> keyfile, pw |-> ""]
    /\ tmpDir = {}
    /\ thread = [p \in Procs |-> NoThread]
    /\ mu = NoLock
    /\ last = Idle

\* the disk fills up or is freed between two calls
DiskChange(f) ==
    /\ diskFault' = f
    /\ diskFault' # diskFault
    /\ last' = Idle
    /\ UNCHANGED <<files, dirs, keyfile, mirror, sessionFile, mem, timeout, now, written,
                   sinceClear, proc, git, initRec, tmpDir, thread, mu>>

FaultNext ==
    \/ \E n \in GitNames, pt \in Plaintexts, c \in Creds : Insert(Main, n, pt, c)
    \/ \E n \in GitNames, pt \in Plaintexts, c \in Creds : Update(Main, n, pt, c)
    \/ \E n \in GitNames : Remove(Main, n)
    \/ \E f \in WriteFailures : DiskChange(f)

FaultSpec == FaultInit /\ [][FaultNext]_vars


\* ------------------------------------------------- names that leave the store
\* the store's operations on the names of EscapeNames
EscapeNext ==
    \/ \E n \in EscapeNames, pt \in Plaintexts, c \in Creds : Insert(Main, n, pt, c)
    \/ \E n \in EscapeNames, pt \in Plaintexts, c \in Creds : Update(Main, n, pt, c)
    \/ \E n \in EscapeNames, c \in Creds : Show(Main, n, c)
    \/ \E n \in EscapeNames : Remove(Main, n)
    \/ \E n \in EscapeNames, c \in Creds :
            \E ed \in EditorOutcomes(CurrentContent(n)) : Edit(Main, n, c, ed)

EscapeSpec == StoreInit /\ [][EscapeNext]_vars


\* ------------------------------------------------------------------- claims
\* what a call of the store would return in the current state
InsertNow(n, pt, c) == StoreInsert(World(Main), keyfile, n, pt, c, now, timeout, diskFault)
UpdateNow(n, pt, c) == StoreUpdate(World(Main), keyfile, n, pt, c, now, timeout, diskFault)
ShowNow(n, c) == StoreShow(World(Main), keyfile, n, c, now, timeout, diskFault)

\* C1: under sequential use of Insert, Update, Edit, Show and Remove with
\* arbitrary credentials, one master credential decrypts every secret file
\* that is in the store.
C1_OneMasterCredential ==
    \E c \in Creds : \A f \in EncFiles(files) : Decrypt(keyfile, files[f], c).err = ""

\* two secrets are stored and a write with the other credential was just refused
C1_Witness ==
    /\ Cardinality(EncFiles(files)) = 2
    /\ last.op = "Update"
    /\ last.res = "password validation failed"

\* C2: when the store holds a secret written with one credential, Insert and
\* Update with any other credential fail with the incorrect-master-password
\* error and write nothing: no file is created or overwritten, no directory is
\* created, every stored file is unchanged.
C2_WrongCredentialWritesNothing ==
    \A n \in Names, pt \in Plaintexts, c \in Creds :
        (\E f \in AllPaths : written[f].set /\ written[f].cred # c) =>
            /\ InsertNow(n, pt, c).res = "password validation failed"
            /\ InsertNow(n, pt, c).w.files = files
            /\ InsertNow(n, pt, c).w.dirs = dirs
            /\ UpdateNow(n, pt, c).res = "password validation failed"
            /\ UpdateNow(n, pt, c).w.files = files
            /\ UpdateNow(n, pt, c).w.dirs = dirs

\* an Insert was just refused for its credential, in a store that holds a secret
\* and has no directory yet
C2_Witness ==
    /\ last.op = "Insert"
    /\ last.res = "password validation failed"
    /\ \E f \in AllPaths : written[f].set
    /\ dirs = {<<>>, BaseDir}

\* C3: Show with the credential of the writes returns the plaintext of the most
\* recent successful write to the name, and "does not exist" when the name was
\* never written or was removed since; with another credential it fails and
\* returns no plaintext.
C3_ShowReturnsLastWrite ==
    \A n \in Names, c \in Creds :
        LET wr == written[getPasswordFilePath(n)]
            r == ShowNow(n, c)
        IN  IF ~wr.set THEN r.res = "does not exist" /\ r.out = <<>>
            ELSE IF c = wr.cred THEN r.res = "ok" /\ r.out = wr.pt
            ELSE r.res = "failed to decrypt password" /\ r.out = <<>>

\* Show just returned a secret that was written, and written again since
C3_Witness ==
    /\ last.op = "Show"
    /\ last.res = "ok"
    /\ \E f \in DOMAIN files : written[f].set /\ files[f].salt > 1 /\ Cardinality(DOMAIN files) = 1



\* C4: a session-token mismatch destroys the cached credential: Get does not
\* return the credential while the session file differs from the session token
\* of the cached entry.  Stated for the plainest case, on the state Get leaves
\* (the memory's session ID is then the entry's): the entry has not reached its
\* expiration and the session file exists.
C4_SessionMismatchIsMiss ==
    (last.op = "Get" /\ last.res = "hit" /\ now < mem[Main].exp /\ sessionFile.exists) =>
        sessionFile.data = mem[Main].sid

\* C5: Get returns a credential only strictly before the expiration of the
\* entry it returns, from memory or from the mirror; at now = expiration and
\* later it misses.
C5_HitOnlyBeforeExpiration ==
    (last.op = "Get" /\ last.res = "hit") => now < mem[Main].exp

\* the mirror is a record that parses, has not passed its expiration, and opens
MirrorIntact(e, t) == e.kind = "entry" /\ ~(t > e.exp) /\ e.nonce = "ok" /\ MirrorOpens(e)

\* C6: for every content of the mirror that is not a valid, unexpired,
\* correctly encrypted record, Get (of a process whose memory holds no live
\* credential, its read of the file succeeding) returns a miss, without an
\* error or an abort, and the mirror file is gone afterwards.
C6_SelfHealingMirror ==
    [][(/\ last'.op = "Get"
        /\ ~last'.readFails
        /\ mirror.kind # "none"
        /\ ~MirrorIntact(mirror, now)
        /\ ~(mem[Main].pw # "" /\ now < mem[Main].exp)) =>
            (last'.res = "miss" /\ mirror'.kind = "none")]_vars

\* C7: ValidateSession returns true exactly when the memory holds a non-empty
\* session ID and the session file exists, is read, and holds the same bytes;
\* otherwise it returns false, never an error.
C7_ValidateSession ==
    last.op = "ValidateSession" =>
        /\ last.res \in {"true", "false"}
        /\ last.res = "true" <=>
              (/\ mem[Main].sid # 0
               /\ sessionFile.exists
               /\ ~last.readFails
               /\ sessionFile.data = mem[Main].sid)

\* ValidateSession just returned false against a session file that was damaged
C7_Witness ==
    /\ last.op = "ValidateSession"
    /\ last.res = "false"
    /\ ~last.readFails
    /\ mem[Main].sid # 0
    /\ sessionFile.exists
    /\ sessionFile.data # mem[Main].sid


C9_CacheFailureSurfaces ==
    /\ \A c \in Creds, f \in SetFailures \ {"none"} :
          CacheSet(CacheState(Main), c, now, timeout, f).err # ""
    /\ (last.op \in {"Insert", "Update", "Show", "Edit"} /\ last.cacheErr) =>
          last.res \notin {"ok", "no changes"}


\* C10: when two invocations run interleaved on one store, one master
\* credential still decrypts every secret, and a call of Insert that succeeds
\* never writes over a secret that exists when it writes.
C10_CrossProcessSafety ==
    /\ [](\A f, g \in EncFiles(files) :
            \E c \in Creds : /\ Decrypt(keyfile, files[f], c).err = ""
                             /\ Decrypt(keyfile, files[g], c).err = "")
    /\ [][\A p \in Procs :
            (/\ proc[p].op = "Insert" /\ proc[p].pc = "write" /\ proc'[p].pc = "done"
             /\ last'.res = "ok") =>
                getPasswordFilePath(proc[p].name) \notin DOMAIN files]_vars

\* C11: the keyfile is created once and is immutable afterwards: whatever
\* commands run, init on an initialized store included, the keyfile holds the
\* bytes of its first creation.
C11_KeyfileImmutable ==
    initRec.kf # "none" => keyfile = initRec.kf

\* C12: after init of a new store completed with master password P, every
\* secret in the store is encrypted under P (so a write with another
\* credential was rejected).
C12_InitPasswordIsTheCredential ==
    initRec.pw # "" => \A f \in EncFiles(files) : files[f].key[1] = initRec.pw


\* C13: with a credential that passes the cross-secret validation, Insert on a
\* name that has a stored blob fails with "already exists" and leaves every
\* file as it is; Update succeeds whether or not the name has a blob, and
\* replaces the blob by a new one that holds the new plaintext, leaving the
\* other files as they are.
C13_InsertRefusesUpdateReplaces ==
    \A n \in Names, pt \in Plaintexts, c \in Creds :
        LET path == getPasswordFilePath(n)
            v == validatePasswordIfNeeded(World(Main), keyfile, c, now, timeout, diskFault)
            ins == InsertNow(n, pt, c)
            up == UpdateNow(n, pt, c)
        IN  v.err = "" =>
              /\ path \in DOMAIN files =>
                    ins.res = "already exists" /\ ins.w.files = files /\ ins.w.dirs = dirs
              /\ up.res = "ok"
              /\ DOMAIN up.w.files = DOMAIN files \cup {path}
              /\ Decrypt(keyfile, up.w.files[path], c) = [err |-> "", pt |-> pt]
              /\ path \in DOMAIN files => up.w.files[path] # files[path]
              /\ \A f \in DOMAIN files \ {path} : up.w.files[f] = files[f]

\* Insert was just refused on a name whose blob an Update had replaced before
C13_Witness ==
    /\ last.op = "Insert"
    /\ last.res = "already exists"
    /\ \E f \in DOMAIN files : files[f].salt > 1 /\ Cardinality(DOMAIN files) = 1


\* C14: Remove of a name that has no secret file fails with "does not exist"
\* and changes nothing; otherwise it succeeds, deletes that file and no other,
\* and removes exactly the ancestor directories below the store root that the
\* deletion leaves with nothing in them; the store root stays.
C14_RemovePrunes ==
    \A n \in PruneNames :
        LET path == getPasswordFilePath(n)
            r == StoreRemove(World(Main), n)
            Emptied(d) ==
                /\ d # BaseDir /\ IsPrefix(BaseDir, d) /\ IsPrefix(d, Dir(path))
                /\ \A x \in DOMAIN files \cup dirs :
                      (IsPrefix(d, x) /\ x # d) => (x = path \/ IsPrefix(x, Dir(path)))
        IN  IF path \notin DOMAIN files
            THEN r.res = "does not exist" /\ r.w.files = files /\ r.w.dirs = dirs
            ELSE /\ r.res = "ok"
                 /\ DOMAIN r.w.files = DOMAIN files \ {path}
                 /\ \A f \in DOMAIN r.w.files : r.w.files[f] = files[f]
                 /\ BaseDir \in r.w.dirs
                 /\ r.w.dirs = {d \in dirs : ~Emptied(d)}

\* Remove just pruned two directories at once, and a secret is left
C14_Witness ==
    /\ last.op = "Remove"
    /\ last.res = "ok"
    /\ last.name = <<"d", "/", "d", "/", "b">>
    /\ DOMAIN files = {getPasswordFilePath(<<"a">>)}
    /\ LET dd == Dir(getPasswordFilePath(<<"d", "/", "d", "/", "b">>))
       IN  Len(dd) = 3 /\ dirs \cap {dd, Dir(dd)} = {}

\* C15: a name n that does not end in ".enc" and the name n + ".enc" resolve to
\* the same file, resolving n + ".enc" adds no second suffix, and Insert,
\* Update, Show, Exists, Edit and Remove return the same result and leave the
\* same store for either name; Insert of either fails with "already exists"
\* once the file is there.
C15_NameIdentity ==
    \A n \in {x \in Names : ~HasSuffixEnc(x)} :
        LET m == Append(n, ".enc")
            w == World(Main)
        IN  /\ getPasswordFilePath(n) = getPasswordFilePath(m)
            /\ getPasswordFilePath(m) = Join(BaseDir, m)
            /\ Exists(w, n) = Exists(w, m)
            /\ StoreRemove(w, n) = StoreRemove(w, m)
            /\ \A c \in Creds :
                  /\ ShowNow(n, c) = ShowNow(m, c)
                  /\ \A pt \in Plaintexts :
                        /\ InsertNow(n, pt, c) = InsertNow(m, pt, c)
                        /\ UpdateNow(n, pt, c) = UpdateNow(m, pt, c)
                        /\ (InsertNow(n, pt, c).res = "ok" =>
                                StoreInsert(InsertNow(n, pt, c).w, keyfile, m, pt, c,
                                            now, timeout, diskFault).res = "already exists")
                  /\ \A ed \in EditorOutcomes(CurrentContent(n)) :
                        StoreEdit(w, keyfile, n, c, ed, now, timeout, diskFault)
                            = StoreEdit(w, keyfile, m, c, ed, now, timeout, diskFault)

\* Insert under the name with the suffix was refused because the secret exists
C15_Witness ==
    /\ last.op = "Insert"
    /\ last.name = <<"a", ".enc">>
    /\ last.res = "already exists"
    /\ getPasswordFilePath(<<"a">>) \in DOMAIN files
    /\ ShowNow(<<"a">>, files[getPasswordFilePath(<<"a">>)].key[1]).res = "ok"


\* C16: when the editor exits leaving the scratch file exactly as Edit wrote
\* it (the decrypted content of the secret), Edit makes no Update: it reports
\* no change and the secret files are as they were, whatever the stored
\* plaintext is.
C16_UntouchedScratchNoUpdate ==
    \A n \in Names, c \in Creds :
        LET path == getPasswordFilePath(n)
            sh == ShowNow(n, c)
            r == StoreEdit(World(Main), keyfile, n, c, [ok |-> TRUE, content |-> sh.out, fault |-> "none"],
                           now, timeout, diskFault)
        IN  (path \in DOMAIN files /\ sh.res = "ok") =>
                (r.res = "no changes" /\ r.w.files = files)


\* C17: no commit of the store's repository, and so no tree that reaches the
\* remote, holds anything but encrypted secret files and Git's own
\* .gitignore: not the keyfile, not a file of the cache directory (the
\* password mirror, the session file), not .git-config.
C17_OnlyEncryptedStaged ==
    \A t \in {git.head, git.remote} :
        /\ t.keyfile = "none"
        /\ ~t.cache
        /\ ~t.gitconfig


\* C18: when git sync has returned without error, the remote has every commit
\* of the local repository: none is unpushed and the remote's tree is the
\* tree of HEAD.
C18_SyncLeavesNothingUnpushed ==
    (last.op = "git sync" /\ last.res = "ok") =>
        (git.unpushed = <<>> /\ ~git.remoteEmpty /\ git.remote = git.head)


\* C19: with a remote configured and auto-sync on, when Insert, Update, Remove
\* or Edit has succeeded, the change is committed and the remote has it: no
\* commit is unpushed and the remote's tree is the tree of HEAD.
C19_AutoSyncPushes ==
    (/\ last.op \in {"Insert", "Update", "Remove", "Edit"}
     /\ last.res = "ok"
     /\ git.repo /\ git.cfgURL /\ git.autoSync) =>
        (git.unpushed = <<>> /\ ~git.remoteEmpty /\ git.remote = git.head)


C21_MutationExcludesAccess ==
    \A a, b \in Threads :
        (a # b /\ thread[b].op \in {"Set", "Clear"} /\ thread[b].pc # "idle") =>
            thread[a].pc \in {"idle", "lock"}


\* C22: no scratch file of Edit exists once Edit has returned, whichever way
\* it returns after os.CreateTemp: failed write of the scratch file, editor
\* failure, failed read-back, unchanged content, failed Update, successful
\* Update.
C22_ScratchFileRemoved ==
    /\ tmpDir = {}
    /\ \A n \in Names, c \in Creds :
          \A ed \in EditorOutcomes(CurrentContent(n)) :
              StoreEdit(World(Main), keyfile, n, c, ed, now, timeout, diskFault).w.tmp = {}

\* Edit just returned because the scratch file could not be read back
C22_Witness ==
    /\ last.op = "Edit"
    /\ last.res = "failed to read edited content"
    /\ tmpDir = {}
    /\ files # <<>>


\* what a store call that returned r did to the cache of the calling process
CacheWritten(r) == r.w.cs.m # mem[Main] \/ r.w.cs.mirror # mirror \/ r.w.cs.sess # sessionFile

\* C23: a call of Show, Insert, Update or Edit writes the cache (memory,
\* mirror) only with its own credential, and only when that credential
\* decrypts a secret of the store or the call has just encrypted and written a
\* secret with it; a call whose credential decrypts no secret of a store that
\* has secrets leaves the cache as it was; the password prompt puts nothing
\* in the cache but what Get loads from the mirror.
C23_CacheOnlyValidated ==
    \A n \in Names, c \in Creds :
        LET Opens == \E f \in EncFiles(files) : Decrypt(keyfile, files[f], c).err = ""
            Wrote(r) == r.res = "ok" /\ getPasswordFilePath(n) \in DOMAIN r.w.files
                            /\ Decrypt(keyfile, r.w.files[getPasswordFilePath(n)], c).err = ""
            Sound(r) ==
                /\ CacheWritten(r) =>
                      /\ r.w.cs.m.pw = c
                      /\ r.w.cs.mirror # mirror => r.w.cs.mirror.pw = c
                      /\ Opens \/ Wrote(r)
                /\ (EncFiles(files) # {} /\ ~Opens) => (r.res # "ok" /\ ~CacheWritten(r))
            pr == PromptMasterPassword(CacheState(Main), c, now, FALSE)
        IN  /\ Sound(ShowNow(n, c))
            /\ \A pt \in Plaintexts : Sound(InsertNow(n, pt, c)) /\ Sound(UpdateNow(n, pt, c))
            /\ \A ed \in EditorOutcomes(CurrentContent(n)) :
                  Sound(StoreEdit(World(Main), keyfile, n, c, ed, now, timeout, diskFault))
            /\ pr.cs.m.pw \in {mem[Main].pw, mirror.pw}
            /\ pr.cs.mirror \in {mirror, NoMirror}
            /\ pr.cs.sess = sessionFile

\* Show was just refused for its credential while the cache holds the
\* credential of the store
C23_Witness ==
    /\ last.op = "Show"
    /\ last.res = "failed to decrypt password"
    /\ mirror.kind = "entry"
    /\ mem[Main].pw = mirror.pw
    /\ \A f \in EncFiles(files) : Decrypt(keyfile, files[f], mirror.pw).err = ""
    /\ files # <<>>


\* C24: a Get that returns a miss leaves the expiration and the session ID of
\* the memory as they were; and when a Get has missed with no mirror left on
\* disk (its read of the file did not fail), the next Get, coming right after
\* it, does not return a credential: the memory held none that was live.
C24_NoResurrection ==
    [][/\ (last'.op = "Get" /\ last'.res = "miss") =>
             (mem'[Main].exp = mem[Main].exp /\ mem'[Main].sid = mem[Main].sid)
       /\ (last.op = "Get" /\ last.res = "miss" /\ ~last.readFails /\ mirror.kind = "none"
             /\ last'.op = "Get") => last'.res # "hit"]_vars

\* C25: when a Get removes the mirror file, the file it removes is expired or
\* does not parse or does not decrypt: a mirror that another process has just
\* written, that has not reached its expiration and that decrypts, is not
\* removed by Get.
C25_GetRemovesOnlyBadMirror ==
    [][\A p \in Procs :
          (thread[p].op = "Get" /\ thread'[p].op = "none"
              /\ mirror.kind # "none" /\ mirror'.kind = "none") =>
                ~(mirror.kind = "entry" /\ now < mirror.exp /\ mirror.nonce = "ok"
                    /\ MirrorOpens(mirror))]_vars

\* C26: when no process is in Set and both cache files exist, the session file
\* holds the session_id of the mirror.
C26_MirrorSessionAgree ==
    ((\A p \in Procs : thread[p].op # "Set") /\ mirror.kind = "entry" /\ sessionFile.exists) =>
        sessionFile.data = mirror.sid


\* C27: a Set that returns an error leaves the cache as it was before the
\* call: the memory of the process (password, expiration, session ID), the
\* mirror and the session file are unchanged, and Get after it gives what Get
\* before it would have given.
C27_SetAllOrNothing ==
    [][(last'.op = "Set" /\ last'.res # "ok") =>
            /\ mem'[Main] = mem[Main]
            /\ mirror' = mirror
            /\ sessionFile' = sessionFile]_vars


\* C28: an Insert or Update that returns an error leaves the tree of the store
\* as it was: the secret files are the same with the same content, and no
\* directory exists that did not exist before the call (the directory of the
\* credential cache is left out).
C28_FailedWriteLeavesTree ==
    [][(last'.op \in {"Insert", "Update"} /\ last'.res # "ok") =>
            /\ files' = files
            /\ dirs' \ {CacheDir} = dirs \ {CacheDir}]_vars


\* C29: whatever name Insert, Update, Show, Edit or Remove is given, every file
\* it leaves and every directory it creates lies strictly inside the store
\* root: every secret file is below the store root, and every directory is the
\* store root, below it, or above it.
C29_PathContainment ==
    /\ \A f \in DOMAIN files : IsPrefix(BaseDir, f) /\ Len(f) > Len(BaseDir)
    /\ \A d \in dirs : IsPrefix(BaseDir, d) \/ IsPrefix(d, BaseDir)


\* C30: an init of a new store that returns an error (empty master password,
\* confirmation mismatch) leaves the store uninitialized: no keyfile has been
\* persisted, so that the next init does not fail with "password store already
\* initialized".
C30_FailedInitRetryable ==
    (last.op = "init" /\ last.res \in {"master password cannot be empty", "passwords do not match"})
        => keyfile = "none"

====
